---- MODULE Spec2Model ----
(***************************************************************************)
(* Data-access layer of a chat application over one DynamoDB table         *)
(* (src/src/dal/chats.ts) with the two ElectroDB entities of               *)
(* src/src/models/chat-model.ts.                                           *)
(*                                                                         *)
(* The table is a set of items with distinct (pk, sk).  Every storage call *)
(* (one awaited `.go()`) is one atomic step; an operation of the DAL is    *)
(* the sequence of its storage calls.  The store is taken as the spec's    *)
(* storage boundary: reads see the latest write and a range query returns  *)
(* the whole range.  Timestamps are readings of a clock that never runs    *)
(* backwards and may advance between any two readings.                     *)
(***************************************************************************)
EXTENDS Integers, Sequences, FiniteSets, TLC

(* ------------------------------ bounds -------------------------------- *)
\* number of chat identifiers crypto.randomUUID() can produce in a run
MaxChats == 2
\* number of message identifiers crypto.randomUUID() can produce in a run
MaxMsgs == 2
\* last reading of the clock
MaxClock == 1

(* ------------------------- program constants -------------------------- *)
\* chat-model.ts:41  value.length <= 100
MaxNameLen == 100

Procs == {"p1", "p2"}
\* the process whose operations run one at a time in Spec
SeqProcs == {"p1"}

Users == {"u1", "u2"}
\* a userId argument: a user, or the empty string
UserIds == Users \cup {""}
ChatIds == 1..MaxChats
MsgIds == 1..MaxMsgs

RECURSIVE Rep(_)
\* a string of n characters
Rep(n) == IF n = 0 THEN "" ELSE Rep(n - 1) \o "x"

\* name arguments: lengths 0, 1, 100 and 101
Names == {"", "n", Rep(MaxNameLen), Rep(MaxNameLen + 1)}

\* an attribute that was not supplied (undefined)
Undefined == "undefined"
\* (content, role, reasoningContent?) arguments of createMessage
NewMessages ==
  { [content |-> "c1", role |-> "user", reasoningContent |-> Undefined],
    [content |-> "c2", role |-> "assistant", reasoningContent |-> "r1"] }
\* (content, reasoningContent?) arguments of updateMessage
MessageEdits ==
  { [content |-> "c3", reasoningContent |-> Undefined],
    [content |-> "c3", reasoningContent |-> "r2"] }

UserMessage == CHOOSE m \in NewMessages : m.role = "user"
PlainEdit == CHOOSE e \in MessageEdits : e.reasoningContent = Undefined

\* The argument values of one run.  userIds: the userId arguments; names: the
\* name arguments; newMessages and edits: the message arguments; ticks: by how
\* much the clock can advance between two readings (0 alone: the whole run
\* falls into one millisecond).  Every run draws its calls from one of these.
ArgumentWorkload ==
  [userIds |-> UserIds, names |-> {"n"}, newMessages |-> {UserMessage},
   edits |-> {PlainEdit}, ticks |-> {0}]
ClockWorkload ==
  [userIds |-> Users, names |-> {"n"}, newMessages |-> {UserMessage},
   edits |-> {PlainEdit}, ticks |-> {0, 1}]
NameWorkload ==
  [userIds |-> Users, names |-> Names, newMessages |-> {UserMessage},
   edits |-> {PlainEdit}, ticks |-> {0}]
MessageWorkload ==
  [userIds |-> Users, names |-> {"n"}, newMessages |-> NewMessages,
   edits |-> MessageEdits, ticks |-> {0}]
RenameWorkload ==
  [userIds |-> Users, names |-> {"n", Rep(MaxNameLen)}, newMessages |-> {},
   edits |-> {}, ticks |-> {0, 1}]
Workloads ==
  {ArgumentWorkload, ClockWorkload, NameWorkload, MessageWorkload, RenameWorkload}

\* the result of a get that found nothing
Null == [entity |-> "null"]

VARIABLES
  table,     \* the items of ChatsTable
  now,       \* the clock read by `new Date()`
  usedIds,   \* the UUIDs generated so far: [chat |-> set, msg |-> set]
  pc,        \* per process: "idle", the storage call it is about to issue, or "done"
  op,        \* per process: the operation in progress or last completed, with its arguments
  local,     \* per process: the operation's local constants (chat, messages, message)
  result,    \* per process: the value returned or the error thrown
  calls,     \* per process: storage calls issued by the operation so far
  live,      \* <<chatId, userId>> of every createChat that returned and was not deleted since
  workload   \* the argument values the calls of this run are drawn from

vars == <<table, now, usedIds, pc, op, local, result, calls, live, workload>>

(* --------------------- chat-model.ts: the entities -------------------- *)

\* mutant: no upper bound on the length
validate_noUpperBound(value) == Len(value) > 0

\* ChatEntity.attributes.name.validate
validate(value) == Len(value) > 0 /\ Len(value) <= MaxNameLen

\* attributes whose definition has a `set` callback (updatedAt of both entities)
HasSetter == {"updatedAt"}

IsChat(i) == i.entity = "chat"
IsMessage(i) == i.entity = "chatmessage"

\* character codes of the key templates
METADATA == <<77, 69, 84, 65, 68, 65, 84, 65>>
MSGPrefix == <<77, 83, 71, 35>>
Hash == <<35>>
\* Date.toISOString(): fixed width, so string order is time order
ISO(t) == <<48 + (t \div 10), 48 + (t % 10)>>
\* a UUID as text: fixed width
UUID(m) == <<48 + (m \div 10), 48 + (m % 10)>>

\* "CHAT#"
CHATPrefix == <<67, 72, 65, 84, 35>>
\* indexes.primary.pk of both entities: "CHAT#${chatId}"
ChatPk(chatId) == CHATPrefix \o UUID(chatId)
\* ChatEntity.indexes.primary.sk: "METADATA"
ChatSk == METADATA
\* mutant: "MSG#${messageId}#${createdAt}"
MessageSk_idFirst(createdAt, messageId) ==
  MSGPrefix \o UUID(messageId) \o Hash \o ISO(createdAt)

\* mutant: "MSG#${createdAt}", without the messageId
MessageSk_noId(createdAt, messageId) == MSGPrefix \o ISO(createdAt)

\* ChatMessageEntity.indexes.primary.sk: "MSG#${createdAt}#${messageId}"
MessageSk(createdAt, messageId) == MSGPrefix \o ISO(createdAt) \o Hash \o UUID(messageId)
\* ChatEntity.indexes.byUser.pk: "USER#${userId}"
Gsi1Pk(userId) == <<"USER#", userId>>
\* ChatEntity.indexes.byUser.sk: "CHAT#${updatedAt}"
Gsi1Sk(updatedAt) == CHATPrefix \o ISO(updatedAt)

ChatKey(chatId) == [pk |-> ChatPk(chatId), sk |-> ChatSk]
MessageKey(chatId, createdAt, messageId) ==
  [pk |-> ChatPk(chatId), sk |-> MessageSk(createdAt, messageId)]

\* the primary key of a stored item
KeyOf(i) ==
  IF IsChat(i) THEN ChatKey(i.chatId)
  ELSE MessageKey(i.chatId, i.createdAt, i.messageId)

\* a chat item has the index keys gsi1pk, gsi1sk once userId and updatedAt were written
InGsi1(i) == IsChat(i) /\ "userId" \in DOMAIN i /\ "updatedAt" \in DOMAIN i

RECURSIVE LexLess(_, _)
\* order of two strings as DynamoDB orders sort keys
LexLess(a, b) ==
  IF b = <<>> THEN FALSE
  ELSE IF a = <<>> THEN TRUE
  ELSE IF Head(a) # Head(b) THEN Head(a) < Head(b)
  ELSE LexLess(Tail(a), Tail(b))

LexLeq(a, b) == a = b \/ LexLess(a, b)

BeginsWith(s, prefix) ==
  Len(s) >= Len(prefix) /\ SubSeq(s, 1, Len(prefix)) = prefix

(* --------------------------- storage calls ---------------------------- *)

ItemAt(tbl, key) ==
  IF \E i \in tbl : KeyOf(i) = key
  THEN CHOOSE i \in tbl : KeyOf(i) = key
  ELSE Null

Exists(tbl, key) == \E i \in tbl : KeyOf(i) = key

RECURSIVE SortBySk(_)
\* the items of S in ascending order of sort key
SortBySk(S) ==
  IF S = {} THEN <<>>
  ELSE LET first == CHOOSE i \in S : \A j \in S : LexLeq(KeyOf(i).sk, KeyOf(j).sk)
       IN <<first>> \o SortBySk(S \ {first})

\* messageEntity.query.primary({ chatId }).go()
QueryMessages(tbl, chatId) ==
  SortBySk({ i \in tbl : /\ KeyOf(i).pk = ChatPk(chatId)
                         /\ BeginsWith(KeyOf(i).sk, MSGPrefix)
                         /\ IsMessage(i) })

\* the whole partition CHAT#chatId in sort-key order
QueryPartition(tbl, chatId) == SortBySk({ i \in tbl : KeyOf(i).pk = ChatPk(chatId) })

\* chatEntity.get({ chatId }).go()
GetChat(tbl, chatId) == ItemAt(tbl, ChatKey(chatId))

\* mutant: the chat is returned whoever owns it
ChatForUser_anyOwner(tbl, chatId, userId) == GetChat(tbl, chatId)

\* getChatForUser, after its userId check: `chat?.userId === userId ? chat : null`
ChatForUser(tbl, chatId, userId) ==
  LET chat == GetChat(tbl, chatId)
  IN IF chat # Null /\ "userId" \in DOMAIN chat /\ chat.userId = userId
     THEN chat ELSE Null

\* the orders in which gsi1 can return the items of S: ascending gsi1sk,
\* items of equal gsi1sk in any order
RECURSIVE Gsi1Orders(_)
Gsi1Orders(S) ==
  IF S = {} THEN {<<>>}
  ELSE UNION { { <<i>> \o rest : rest \in Gsi1Orders(S \ {i}) } :
               i \in { i \in S : \A j \in S :
                         LexLeq(Gsi1Sk(i.updatedAt), Gsi1Sk(j.updatedAt)) } }

\* mutant: the index is read without the owner's partition key
QueryByUser_allUsers(tbl, userId) == Gsi1Orders({ i \in tbl : InGsi1(i) })

\* chatEntity.query.byUser({ userId }).go(): the possible results
QueryByUser(tbl, userId) ==
  Gsi1Orders({ i \in tbl : InGsi1(i) /\ Gsi1Pk(i.userId) = Gsi1Pk(userId) })

\* mutant: the item is written anew, its createdAt default taken again
ApplySet_putAnew(item, payload, t) ==
  [a \in DOMAIN item \cup DOMAIN payload |->
     IF a \in DOMAIN payload
     THEN IF a \in HasSetter THEN t ELSE payload[a]
     ELSE IF a = "createdAt" THEN t ELSE item[a]]

\* mutant: a write that does not supply updatedAt resets it to the item's createdAt
ApplySet_resetsUpdatedAt(item, payload, t) ==
  [a \in DOMAIN item \cup DOMAIN payload |->
     IF a \in DOMAIN payload
     THEN IF a \in HasSetter THEN t ELSE payload[a]
     ELSE IF a = "updatedAt" /\ "createdAt" \in DOMAIN item
          THEN item.createdAt ELSE item[a]]

\* the attributes after `.set(payload)`: a supplied attribute is written, through
\* its `set` callback when it has one; an attribute that is not supplied is kept
ApplySet(item, payload, t) ==
  [a \in DOMAIN item \cup DOMAIN payload |->
     IF a \in DOMAIN payload
     THEN IF a \in HasSetter THEN t ELSE payload[a]
     ELSE item[a]]

\* schema check of the attributes passed to create or set
ValidChat(payload) == "name" \in DOMAIN payload => validate(payload.name)

\* chatEntity.create({ userId, name }): defaults, then the `set` callbacks;
\* createdAt is read at t1, updatedAt at t2
NewChat(chatId, userId, name, t1, t2) ==
  [entity |-> "chat", chatId |-> chatId, userId |-> userId, name |-> name,
   createdAt |-> t1, updatedAt |-> t2]

\* mutant: a message of role assistant is stored under a synthetic sender
NewMessage_assistantSender(chatId, messageId, userId, m, t1, t2) ==
  [entity |-> "chatmessage", chatId |-> chatId, messageId |-> messageId,
   userId |-> IF m.role = "assistant" THEN "assistant" ELSE userId,
   createdAt |-> t1, updatedAt |-> t2,
   content |-> m.content, reasoningContent |-> m.reasoningContent, role |-> m.role]

\* messageEntity.create({ chatId, userId, content, role, reasoningContent })
NewMessage(chatId, messageId, userId, m, t1, t2) ==
  [entity |-> "chatmessage", chatId |-> chatId, messageId |-> messageId,
   userId |-> userId, createdAt |-> t1, updatedAt |-> t2,
   content |-> m.content, reasoningContent |-> m.reasoningContent, role |-> m.role]

\* create: a put under the condition that the key is free
Create(tbl, item) ==
  IF Exists(tbl, KeyOf(item))
  THEN [ok |-> FALSE, table |-> tbl, item |-> Null]
  ELSE [ok |-> TRUE, table |-> tbl \cup {item}, item |-> item]

\* patch(key).set(payload): an update under the condition that the item exists
Patch(tbl, key, payload, t) ==
  IF Exists(tbl, key)
  THEN LET old == ItemAt(tbl, key)
           new == ApplySet(old, payload, t)
       IN [ok |-> TRUE, table |-> (tbl \ {old}) \cup {new}, item |-> new]
  ELSE [ok |-> FALSE, table |-> tbl, item |-> Null]

\* chatEntity.update({ chatId }).set(payload): an update with no condition; without
\* an item it writes one that holds the key attributes and the payload
UpdateChat(tbl, chatId, payload, t) ==
  IF Exists(tbl, ChatKey(chatId))
  THEN Patch(tbl, ChatKey(chatId), payload, t)
  ELSE LET new == ApplySet([entity |-> "chat", chatId |-> chatId], payload, t)
       IN [ok |-> TRUE, table |-> tbl \cup {new}, item |-> new]

\* delete(key): no condition
Delete(tbl, key) == { i \in tbl : KeyOf(i) # key }

(* ------------------------- results and control ------------------------ *)

Pending == [kind |-> "pending"]
Err(e) == [kind |-> "error", error |-> e]
Val(v) == [kind |-> "value", value |-> v]
NoLocal == [messages |-> <<>>, message |-> Null]

\* mutant: only an absent userId is refused, the empty string passes
UserIdMissing_undefinedOnly(userId) == userId = Undefined

\* `if (!userId) throw new Error("userId is required")`
UserIdMissing(userId) == userId = ""

\* the operation returns r or throws r
Finish(p, r) ==
  /\ pc' = [pc EXCEPT ![p] = "done"]
  /\ result' = [result EXCEPT ![p] = r]
  /\ local' = [local EXCEPT ![p] = NoLocal]

\* the operation goes on to its next storage call, with locals loc
Goto(p, label, loc) ==
  /\ pc' = [pc EXCEPT ![p] = label]
  /\ local' = [local EXCEPT ![p] = loc]
  /\ UNCHANGED result

\* one storage request goes out
Issue(p) == calls' = [calls EXCEPT ![p] = @ + 1]

\* crypto.randomUUID() returns an identifier not generated before.  Message
\* identifiers are ordered by the sort key, so any unused one can come; chat
\* identifiers are only compared for equality, so the least unused one stands
\* for all of them
FreshChatIds == { c \in ChatIds \ usedIds.chat : \A d \in ChatIds \ usedIds.chat : c <= d }
FreshMsgIds == MsgIds \ usedIds.msg

Init ==
  /\ table = {}
  /\ now = 0
  /\ usedIds = [chat |-> {}, msg |-> {}]
  /\ pc = [p \in Procs |-> "idle"]
  /\ op = [p \in Procs |-> [name |-> "none", userId |-> ""]]
  /\ local = [p \in Procs |-> NoLocal]
  /\ result = [p \in Procs |-> Pending]
  /\ calls = [p \in Procs |-> 0]
  /\ live = {}
  /\ workload \in Workloads

\* a call of an operation by process p: the userId check, before any storage call
Invoke(p, o, first) ==
  /\ pc[p] \in {"idle", "done"}
  /\ op' = [op EXCEPT ![p] = o]
  /\ calls' = [calls EXCEPT ![p] = 0]
  /\ local' = [local EXCEPT ![p] = NoLocal]
  /\ IF UserIdMissing(o.userId)
     THEN /\ pc' = [pc EXCEPT ![p] = "done"]
          /\ result' = [result EXCEPT ![p] = Err("InvalidArgument")]
     ELSE /\ pc' = [pc EXCEPT ![p] = first]
          /\ result' = [result EXCEPT ![p] = Pending]
  /\ UNCHANGED <<table, now, usedIds, live, workload>>

\* time passes
Tick ==
  /\ 1 \in workload.ticks
  /\ now < MaxClock
  /\ now' = now + 1
  /\ UNCHANGED <<table, usedIds, pc, op, local, result, calls, live, workload>>

(* ------------------------------ createChat ---------------------------- *)

createChat(p) ==
  \E userId \in workload.userIds, name \in workload.names :
    Invoke(p, [name |-> "createChat", userId |-> userId, chatName |-> name],
           "createChat_create")

\* chatEntity.create({ userId, name }).go(); return chat.data
createChat_create(p) ==
  /\ pc[p] = "createChat_create"
  /\ IF ~ValidChat([name |-> op[p].chatName])
     THEN /\ Finish(p, Err("Validation"))
          /\ UNCHANGED <<table, now, usedIds, calls, live>>
     ELSE \E chatId \in FreshChatIds, d \in workload.ticks :
            /\ now + d <= MaxClock
            /\ LET r == Create(table, NewChat(chatId, op[p].userId, op[p].chatName,
                                              now, now + d))
               IN /\ table' = r.table
                  /\ IF r.ok
                     THEN /\ Finish(p, Val(r.item))
                          /\ live' = live \cup {<<chatId, op[p].userId>>}
                     ELSE /\ Finish(p, Err("ConditionalCheckFailed"))
                          /\ UNCHANGED live
            /\ now' = now + d
            /\ usedIds' = [usedIds EXCEPT !.chat = @ \cup {chatId}]
            /\ Issue(p)
  /\ UNCHANGED <<op, workload>>

(* ----------------------------- createMessage -------------------------- *)

createMessage(p) ==
  \E chatId \in ChatIds, userId \in workload.userIds, m \in workload.newMessages :
    Invoke(p, [name |-> "createMessage", chatId |-> chatId, userId |-> userId,
               content |-> m.content, role |-> m.role,
               reasoningContent |-> m.reasoningContent],
           "createMessage_getChat")

\* const chat = await this.getChatForUser(chatId, userId); if (!chat) throw
createMessage_getChat(p) ==
  /\ pc[p] = "createMessage_getChat"
  /\ Issue(p)
  /\ IF ChatForUser(table, op[p].chatId, op[p].userId) = Null
     THEN Finish(p, Err("NotFound"))
     ELSE Goto(p, "createMessage_create", local[p])
  /\ UNCHANGED <<table, now, usedIds, op, live, workload>>

\* messageEntity.create({ chatId, userId, content, role, reasoningContent }).go()
createMessage_create(p) ==
  /\ pc[p] = "createMessage_create"
  /\ \E messageId \in FreshMsgIds, d \in workload.ticks :
       /\ now + d <= MaxClock
       /\ LET r == Create(table, NewMessage(op[p].chatId, messageId, op[p].userId,
                                            op[p], now, now + d))
          IN /\ table' = r.table
             /\ IF r.ok
                THEN Goto(p, "createMessage_touch", [local[p] EXCEPT !.message = r.item])
                ELSE Finish(p, Err("ConditionalCheckFailed"))
       /\ now' = now + d
       /\ usedIds' = [usedIds EXCEPT !.msg = @ \cup {messageId}]
  /\ Issue(p)
  /\ UNCHANGED <<op, live, workload>>

\* await this.chatEntity.update({ chatId }).set({}).go(); return message
createMessage_touch(p) ==
  /\ pc[p] = "createMessage_touch"
  /\ table' = UpdateChat(table, op[p].chatId, <<>>, now).table
  /\ Issue(p)
  /\ Finish(p, Val(local[p].message))
  /\ UNCHANGED <<now, usedIds, op, live, workload>>

(* ------------------------------- reads -------------------------------- *)

getChatForUser(p) ==
  \E chatId \in ChatIds, userId \in workload.userIds :
    Invoke(p, [name |-> "getChatForUser", chatId |-> chatId, userId |-> userId],
           "getChatForUser_get")

\* chatEntity.get({ chatId }).go(); return chat?.userId === userId ? chat : null
getChatForUser_get(p) ==
  /\ pc[p] = "getChatForUser_get"
  /\ Issue(p)
  /\ Finish(p, Val(ChatForUser(table, op[p].chatId, op[p].userId)))
  /\ UNCHANGED <<table, now, usedIds, op, live, workload>>

getAllChatsForUser(p) ==
  \E userId \in workload.userIds :
    Invoke(p, [name |-> "getAllChatsForUser", userId |-> userId],
           "getAllChatsForUser_query")

\* chatEntity.query.byUser({ userId }).go(); return chats
getAllChatsForUser_query(p) ==
  /\ pc[p] = "getAllChatsForUser_query"
  /\ Issue(p)
  /\ \E chats \in QueryByUser(table, op[p].userId) : Finish(p, Val(chats))
  /\ UNCHANGED <<table, now, usedIds, op, live, workload>>

getMessagesForChat(p) ==
  \E chatId \in ChatIds, userId \in workload.userIds :
    Invoke(p, [name |-> "getMessagesForChat", chatId |-> chatId, userId |-> userId],
           "getMessagesForChat_getChat")

\* const chat = await this.getChatForUser(chatId, userId); if (!chat) return []
getMessagesForChat_getChat(p) ==
  /\ pc[p] = "getMessagesForChat_getChat"
  /\ Issue(p)
  /\ IF ChatForUser(table, op[p].chatId, op[p].userId) = Null
     THEN Finish(p, Val(<<>>))
     ELSE Goto(p, "getMessagesForChat_query", local[p])
  /\ UNCHANGED <<table, now, usedIds, op, live, workload>>

\* messageEntity.query.primary({ chatId }).go(); return messages
getMessagesForChat_query(p) ==
  /\ pc[p] = "getMessagesForChat_query"
  /\ Issue(p)
  /\ Finish(p, Val(QueryMessages(table, op[p].chatId)))
  /\ UNCHANGED <<table, now, usedIds, op, live, workload>>

(* ---------------------------- updateChatName -------------------------- *)

updateChatName(p) ==
  \E chatId \in ChatIds, userId \in workload.userIds, name \in workload.names :
    Invoke(p, [name |-> "updateChatName", chatId |-> chatId, userId |-> userId,
               chatName |-> name],
           "updateChatName_getChat")

\* const chat = await this.getChatForUser(chatId, userId); if (!chat) throw
updateChatName_getChat(p) ==
  /\ pc[p] = "updateChatName_getChat"
  /\ Issue(p)
  /\ IF ChatForUser(table, op[p].chatId, op[p].userId) = Null
     THEN Finish(p, Err("NotFound"))
     ELSE Goto(p, "updateChatName_patch", local[p])
  /\ UNCHANGED <<table, now, usedIds, op, live, workload>>

\* chatEntity.patch({ chatId }).set({ name }).go({ response: "all_new" })
updateChatName_patch(p) ==
  /\ pc[p] = "updateChatName_patch"
  /\ LET payload == [name |-> op[p].chatName]
     IN IF ~ValidChat(payload)
        THEN /\ Finish(p, Err("Validation"))
             /\ UNCHANGED <<table, calls>>
        ELSE LET r == Patch(table, ChatKey(op[p].chatId), payload, now)
             IN /\ table' = r.table
                /\ Issue(p)
                /\ IF r.ok THEN Finish(p, Val(r.item))
                   ELSE Finish(p, Err("ConditionalCheckFailed"))
  /\ UNCHANGED <<now, usedIds, op, live, workload>>

(* ----------------------------- updateMessage -------------------------- *)

\* mutant: the first message of the chat is taken, whatever its messageId
Find_first(messages, messageId) ==
  IF messages = <<>> THEN Null ELSE messages[1]

\* messages.data.find((m) => m.messageId === messageId)
Find(messages, messageId) ==
  IF \E k \in 1..Len(messages) : messages[k].messageId = messageId
  THEN messages[CHOOSE k \in 1..Len(messages) :
                  /\ messages[k].messageId = messageId
                  /\ \A j \in 1..(k - 1) : messages[j].messageId # messageId]
  ELSE Null

updateMessage(p) ==
  \E chatId \in ChatIds, messageId \in MsgIds, userId \in workload.userIds,
     e \in workload.edits :
    Invoke(p, [name |-> "updateMessage", chatId |-> chatId, messageId |-> messageId,
               userId |-> userId, content |-> e.content,
               reasoningContent |-> e.reasoningContent],
           "updateMessage_getChat")

\* const chat = await this.getChatForUser(chatId, userId); if (!chat) throw
updateMessage_getChat(p) ==
  /\ pc[p] = "updateMessage_getChat"
  /\ Issue(p)
  /\ IF ChatForUser(table, op[p].chatId, op[p].userId) = Null
     THEN Finish(p, Err("NotFound"))
     ELSE Goto(p, "updateMessage_query", local[p])
  /\ UNCHANGED <<table, now, usedIds, op, live, workload>>

\* const messages = await query.primary({ chatId }).go(); find; if (!message) throw
updateMessage_query(p) ==
  /\ pc[p] = "updateMessage_query"
  /\ Issue(p)
  /\ LET message == Find(QueryMessages(table, op[p].chatId), op[p].messageId)
     IN IF message = Null
        THEN Finish(p, Err("NotFound"))
        ELSE Goto(p, "updateMessage_patch", [local[p] EXCEPT !.message = message])
  /\ UNCHANGED <<table, now, usedIds, op, live, workload>>

\* mutant: set({ content, reasoningContent }), also when none is supplied
MessagePayload_always(o) ==
  [content |-> o.content, reasoningContent |-> o.reasoningContent]

\* set({ content, ...(reasoningContent !== undefined && { reasoningContent }) })
MessagePayload(o) ==
  IF o.reasoningContent # Undefined
  THEN [content |-> o.content, reasoningContent |-> o.reasoningContent]
  ELSE [content |-> o.content]

\* messageEntity.patch({ chatId, createdAt: message.createdAt, messageId }).set(..)
updateMessage_patch(p) ==
  /\ pc[p] = "updateMessage_patch"
  /\ Issue(p)
  /\ LET r == Patch(table,
                    MessageKey(op[p].chatId, local[p].message.createdAt, op[p].messageId),
                    MessagePayload(op[p]), now)
     IN /\ table' = r.table
        /\ IF r.ok
           THEN Goto(p, "updateMessage_touch", [local[p] EXCEPT !.message = r.item])
           ELSE Finish(p, Err("ConditionalCheckFailed"))
  /\ UNCHANGED <<now, usedIds, op, live, workload>>

\* await this.chatEntity.update({ chatId }).set({}).go(); return updatedMessage
updateMessage_touch(p) ==
  /\ pc[p] = "updateMessage_touch"
  /\ table' = UpdateChat(table, op[p].chatId, <<>>, now).table
  /\ Issue(p)
  /\ Finish(p, Val(local[p].message))
  /\ UNCHANGED <<now, usedIds, op, live, workload>>

(* ------------------------------ deleteChat ---------------------------- *)

deleteChat(p) ==
  \E chatId \in ChatIds, userId \in workload.userIds :
    Invoke(p, [name |-> "deleteChat", chatId |-> chatId, userId |-> userId],
           "deleteChat_getChat")

\* const chat = await this.getChatForUser(chatId, userId); if (!chat) return false
deleteChat_getChat(p) ==
  /\ pc[p] = "deleteChat_getChat"
  /\ Issue(p)
  /\ IF ChatForUser(table, op[p].chatId, op[p].userId) = Null
     THEN Finish(p, Val(FALSE))
     ELSE Goto(p, "deleteChat_query", local[p])
  /\ UNCHANGED <<table, now, usedIds, op, live, workload>>

\* mutant: the chat item is deleted first, with the query, the messages after it
deleteChat_query_chatFirst(p) ==
  /\ pc[p] = "deleteChat_query"
  /\ Issue(p)
  /\ LET messages == QueryMessages(table, op[p].chatId)
     IN /\ table' = Delete(table, ChatKey(op[p].chatId))
        /\ Goto(p, IF messages = <<>> THEN "deleteChat_delete"
                   ELSE "deleteChat_deleteMessage",
                [local[p] EXCEPT !.messages = messages])
  /\ UNCHANGED <<now, usedIds, op, live, workload>>

\* const { data: messages } = await messageEntity.query.primary({ chatId }).go()
deleteChat_query(p) ==
  /\ pc[p] = "deleteChat_query"
  /\ Issue(p)
  /\ LET messages == QueryMessages(table, op[p].chatId)
     IN Goto(p, IF messages = <<>> THEN "deleteChat_delete"
                ELSE "deleteChat_deleteMessage",
             [local[p] EXCEPT !.messages = messages])
  /\ UNCHANGED <<table, now, usedIds, op, live, workload>>

\* mutant: only the first message is deleted before the chat item
deleteChat_deleteMessage_firstOnly(p) ==
  /\ pc[p] = "deleteChat_deleteMessage"
  /\ Issue(p)
  /\ LET message == Head(local[p].messages)
     IN /\ table' = Delete(table, MessageKey(op[p].chatId, message.createdAt,
                                             message.messageId))
        /\ Goto(p, "deleteChat_delete", [local[p] EXCEPT !.messages = <<>>])
  /\ UNCHANGED <<now, usedIds, op, live, workload>>

\* one turn of `for (const message of messages) await messageEntity.delete(..).go()`
deleteChat_deleteMessage(p) ==
  /\ pc[p] = "deleteChat_deleteMessage"
  /\ Issue(p)
  /\ LET message == Head(local[p].messages)
         rest == Tail(local[p].messages)
     IN /\ table' = Delete(table, MessageKey(op[p].chatId, message.createdAt,
                                             message.messageId))
        /\ Goto(p, IF rest = <<>> THEN "deleteChat_delete"
                   ELSE "deleteChat_deleteMessage",
                [local[p] EXCEPT !.messages = rest])
  /\ UNCHANGED <<now, usedIds, op, live, workload>>

\* await this.chatEntity.delete({ chatId }).go(); return true
deleteChat_delete(p) ==
  /\ pc[p] = "deleteChat_delete"
  /\ Issue(p)
  /\ table' = Delete(table, ChatKey(op[p].chatId))
  /\ live' = { c \in live : c[1] # op[p].chatId }
  /\ Finish(p, Val(TRUE))
  /\ UNCHANGED <<now, usedIds, op, workload>>

(* ----------------------------- deleteMessage -------------------------- *)

deleteMessage(p) ==
  \E chatId \in ChatIds, messageId \in MsgIds, userId \in workload.userIds :
    Invoke(p, [name |-> "deleteMessage", chatId |-> chatId, messageId |-> messageId,
               userId |-> userId],
           "deleteMessage_query")

\* mutant: `if (!message) throw`, without the author check
deleteMessage_query_noAuthorCheck(p) ==
  /\ pc[p] = "deleteMessage_query"
  /\ Issue(p)
  /\ LET message == Find(QueryMessages(table, op[p].chatId), op[p].messageId)
     IN IF message = Null
        THEN Finish(p, Err("NotFound"))
        ELSE Goto(p, "deleteMessage_delete", [local[p] EXCEPT !.message = message])
  /\ UNCHANGED <<table, now, usedIds, op, live, workload>>

\* query; find; if (!message || message.userId !== userId) throw
deleteMessage_query(p) ==
  /\ pc[p] = "deleteMessage_query"
  /\ Issue(p)
  /\ LET message == Find(QueryMessages(table, op[p].chatId), op[p].messageId)
     IN IF message = Null \/ message.userId # op[p].userId
        THEN Finish(p, Err("NotFound"))
        ELSE Goto(p, "deleteMessage_delete", [local[p] EXCEPT !.message = message])
  /\ UNCHANGED <<table, now, usedIds, op, live, workload>>

\* messageEntity.delete({ chatId, createdAt: message.createdAt, messageId }).go()
deleteMessage_delete(p) ==
  /\ pc[p] = "deleteMessage_delete"
  /\ Issue(p)
  /\ table' = Delete(table, MessageKey(op[p].chatId, local[p].message.createdAt,
                                       op[p].messageId))
  /\ Goto(p, "deleteMessage_touch", local[p])
  /\ UNCHANGED <<now, usedIds, op, live, workload>>

\* await this.chatEntity.patch({ chatId }).set({}).go(); return true
deleteMessage_touch(p) ==
  /\ pc[p] = "deleteMessage_touch"
  /\ Issue(p)
  /\ LET r == Patch(table, ChatKey(op[p].chatId), <<>>, now)
     IN /\ table' = r.table
        /\ IF r.ok THEN Finish(p, Val(TRUE))
           ELSE Finish(p, Err("ConditionalCheckFailed"))
  /\ UNCHANGED <<now, usedIds, op, live, workload>>

(* --------------------------- specifications --------------------------- *)

Step(p) ==
  \/ createChat(p) \/ createChat_create(p)
  \/ createMessage(p) \/ createMessage_getChat(p) \/ createMessage_create(p)
  \/ createMessage_touch(p)
  \/ getChatForUser(p) \/ getChatForUser_get(p)
  \/ getAllChatsForUser(p) \/ getAllChatsForUser_query(p)
  \/ getMessagesForChat(p) \/ getMessagesForChat_getChat(p)
  \/ getMessagesForChat_query(p)
  \/ updateChatName(p) \/ updateChatName_getChat(p) \/ updateChatName_patch(p)
  \/ updateMessage(p) \/ updateMessage_getChat(p) \/ updateMessage_query(p)
  \/ updateMessage_patch(p) \/ updateMessage_touch(p)
  \/ deleteChat(p) \/ deleteChat_getChat(p) \/ deleteChat_query(p)
  \/ deleteChat_deleteMessage(p) \/ deleteChat_delete(p)
  \/ deleteMessage(p) \/ deleteMessage_query(p) \/ deleteMessage_delete(p)
  \/ deleteMessage_touch(p)

\* operations run one at a time
Next == Tick \/ \E p \in SeqProcs : Step(p)

Spec == Init /\ [][Next]_vars

\* the process stops while an operation waits for a storage call or is about
\* to issue the next one: the calls issued so far stay applied, no further
\* call of the operation is made and nothing is returned
crash(p) ==
  /\ pc[p] \notin {"idle", "done", "crashed"}
  /\ pc' = [pc EXCEPT ![p] = "crashed"]
  /\ UNCHANGED <<table, now, usedIds, op, local, result, calls, live, workload>>

\* operations run one at a time and the process may stop in the middle of one
CrashNext == Next \/ \E p \in SeqProcs : crash(p)

CrashSpec == Init /\ [][CrashNext]_vars

\* the argument values of the runs in which operations overlap: one user
ConcWorkload ==
  [userIds |-> {"u1"}, names |-> {"n"}, newMessages |-> {UserMessage},
   edits |-> {PlainEdit}, ticks |-> {0}]

ConcInit ==
  /\ table = {}
  /\ now = 0
  /\ usedIds = [chat |-> {}, msg |-> {}]
  /\ pc = [p \in Procs |-> "idle"]
  /\ op = [p \in Procs |-> [name |-> "none", userId |-> ""]]
  /\ local = [p \in Procs |-> NoLocal]
  /\ result = [p \in Procs |-> Pending]
  /\ calls = [p \in Procs |-> 0]
  /\ live = {}
  /\ workload = ConcWorkload

\* a step of one of the operations that create or delete items or touch the
\* parent chat
WriteStep(p) ==
  \/ createChat(p) \/ createChat_create(p)
  \/ createMessage(p) \/ createMessage_getChat(p) \/ createMessage_create(p)
  \/ createMessage_touch(p)
  \/ updateMessage(p) \/ updateMessage_getChat(p) \/ updateMessage_query(p)
  \/ updateMessage_patch(p) \/ updateMessage_touch(p)
  \/ deleteChat(p) \/ deleteChat_getChat(p) \/ deleteChat_query(p)
  \/ deleteChat_deleteMessage(p) \/ deleteChat_delete(p)
  \/ deleteMessage(p) \/ deleteMessage_query(p) \/ deleteMessage_delete(p)
  \/ deleteMessage_touch(p)

\* operations of two callers overlap: each storage call is atomic, the calls
\* of the two operations interleave in any order
ConcNext == \E p \in Procs : WriteStep(p)

ConcSpec == ConcInit /\ [][ConcNext]_vars

(* ------------------------------- claims -------------------------------- *)

InProgress(p) == pc[p] \notin {"idle", "done"}
Done(p) == pc[p] = "done"

\* process p takes a step
Moves(p) ==
  <<pc[p], op[p], result[p], calls[p], local[p]>>' #
  <<pc[p], op[p], result[p], calls[p], local[p]>>

\* the chat items of chatId in tbl
ChatItems(tbl, chatId) == { i \in tbl : IsChat(i) /\ i.chatId = chatId }
\* the message items of chatId in tbl
MessageItems(tbl, chatId) == { i \in tbl : IsMessage(i) /\ i.chatId = chatId }

\* a chat item of chatId exists and its userId is u
OwnedBy(tbl, chatId, u) ==
  \E i \in ChatItems(tbl, chatId) : "userId" \in DOMAIN i /\ i.userId = u
\* a chat item of chatId exists and its userId is a user other than u
OwnedByOther(tbl, chatId, u) ==
  \E i \in ChatItems(tbl, chatId) : "userId" \in DOMAIN i /\ i.userId # u

\* C1: every operation called with an empty userId fails with the
\* 'userId is required' error in the step of the call itself: no storage call
\* is issued and the table is unchanged, whatever the other arguments and the
\* table are.
C1_EmptyUserIdFailsFirst ==
  [][\A p \in Procs :
       (Moves(p) /\ op'[p].name # "none" /\ op'[p].userId = "")
       => /\ pc'[p] = "done"
          /\ result'[p] = Err("InvalidArgument")
          /\ calls'[p] = 0
          /\ table' = table]_vars

\* C1 witness: deleteMessage was called with an empty userId on a table that
\* holds a message, and has failed with InvalidArgument.
C1_Witness ==
  \E p \in Procs :
    /\ Done(p) /\ op[p].name = "deleteMessage" /\ op[p].userId = ""
    /\ result[p] = Err("InvalidArgument")
    /\ MessageItems(table, op[p].chatId) # {}

\* C2: getChatForUser(chatId, u), u not empty, returns the stored chat exactly
\* when a chat item of chatId with userId u exists and null otherwise;
\* getMessagesForChat returns the empty sequence whenever that lookup is null;
\* neither raises an error and neither returns data of another user's chat.
C2_ReadVisibility ==
  \A p \in Procs :
    (Done(p) /\ op[p].userId # "") =>
      /\ op[p].name = "getChatForUser" =>
           /\ result[p].kind = "value"
           /\ IF OwnedBy(table, op[p].chatId, op[p].userId)
              THEN /\ result[p].value \in ChatItems(table, op[p].chatId)
                   /\ result[p].value.userId = op[p].userId
              ELSE result[p].value = Null
      /\ op[p].name = "getMessagesForChat" =>
           /\ result[p].kind = "value"
           /\ ~OwnedBy(table, op[p].chatId, op[p].userId) => result[p].value = <<>>
           /\ \A k \in 1..Len(result[p].value) :
                /\ result[p].value[k] \in MessageItems(table, op[p].chatId)
                /\ ~OwnedByOther(table, result[p].value[k].chatId, op[p].userId)

\* C2 witness: getMessagesForChat by a user who does not own the chat, which
\* holds a message, has returned the empty sequence.
C2_Witness ==
  \E p \in Procs :
    /\ Done(p) /\ op[p].name = "getMessagesForChat"
    /\ OwnedByOther(table, op[p].chatId, op[p].userId) /\ op[p].userId # ""
    /\ MessageItems(table, op[p].chatId) # {}
    /\ result[p] = Val(<<>>)

\* the labels at which an operation is about to write
WriteLabels ==
  {"createMessage_create", "createMessage_touch", "updateChatName_patch",
   "updateMessage_patch", "updateMessage_touch", "deleteMessage_delete",
   "deleteMessage_touch"}

\* the step ends in NotFound: it writes nothing, returns no value and does not
\* go on to a write
FailsNotFound(p) ==
  /\ table' = table
  /\ pc'[p] = "done"
  /\ result'[p] = Err("NotFound")

\* C3: createMessage, updateChatName and updateMessage fail with NotFound when
\* the chat does not exist or is owned by another user; updateMessage also when
\* the chat is owned but holds no message of that messageId; deleteMessage when
\* the chat holds no message of that messageId or the message's userId is not
\* the caller's.  The check that finds this throws; nothing is returned.
C3_WriteNotFound ==
  [][\A p \in Procs :
       /\ ( /\ Moves(p)
            /\ pc[p] \in {"createMessage_getChat", "updateChatName_getChat",
                          "updateMessage_getChat"}
            /\ ~OwnedBy(table, op[p].chatId, op[p].userId) )
          => FailsNotFound(p)
       /\ ( /\ Moves(p) /\ pc[p] = "updateMessage_query"
            /\ ~\E m \in MessageItems(table, op[p].chatId) :
                  m.messageId = op[p].messageId )
          => FailsNotFound(p)
       /\ ( /\ Moves(p) /\ pc[p] = "deleteMessage_query"
            /\ ~\E m \in MessageItems(table, op[p].chatId) :
                  m.messageId = op[p].messageId /\ m.userId = op[p].userId )
          => FailsNotFound(p)
       /\ ( /\ pc'[p] = "done" /\ Moves(p)
            /\ op'[p].name \in {"createMessage", "updateChatName", "updateMessage",
                                "deleteMessage"}
            /\ result'[p].kind = "value" )
          => pc[p] \in WriteLabels]_vars

\* C3 witness: deleteMessage by a user other than the message's author has
\* failed with NotFound and the message is still there.
C3_Witness ==
  \E p \in Procs :
    /\ Done(p) /\ op[p].name = "deleteMessage" /\ op[p].userId # ""
    /\ \E m \in MessageItems(table, op[p].chatId) :
         m.messageId = op[p].messageId /\ m.userId # op[p].userId
    /\ result[p] = Err("NotFound")

MutatingOps ==
  {"createMessage", "updateChatName", "updateMessage", "deleteChat", "deleteMessage"}

\* C4: with operations running one at a time, no step of createMessage,
\* updateChatName, updateMessage, deleteChat or deleteMessage called by u on a
\* chat owned by another user changes any item of the table, and deleteChat
\* reports it by returning false.
C4_NoCrossUserModification ==
  [][\A p \in Procs :
       ( /\ InProgress(p) /\ op[p].name \in MutatingOps
         /\ OwnedByOther(table, op[p].chatId, op[p].userId) )
       => /\ table' = table
          /\ pc'[p] = "done" =>
               IF op[p].name = "deleteChat" THEN result'[p] = Val(FALSE)
               ELSE result'[p].kind = "error"]_vars

\* C4 witness: deleteChat by a user other than the owner, on a chat holding a
\* message, has returned false.
C4_Witness ==
  \E p \in Procs :
    /\ Done(p) /\ op[p].name = "deleteChat" /\ op[p].userId # ""
    /\ OwnedByOther(table, op[p].chatId, op[p].userId)
    /\ MessageItems(table, op[p].chatId) # {}
    /\ result[p] = Val(FALSE)

\* what getMessagesForChat(chatId, userId) returns on tbl
MessagesForChat(tbl, chatId, userId) ==
  IF ChatForUser(tbl, chatId, userId) = Null THEN <<>> ELSE QueryMessages(tbl, chatId)

\* C5: when deleteChat(chatId, owner) has returned true (no other operation
\* overlapping), the table holds neither the chat item of chatId nor any
\* message of chatId; a following getMessagesForChat returns the empty
\* sequence and getChatForUser null.
C5_CascadeComplete ==
  \A p \in Procs :
    (Done(p) /\ op[p].name = "deleteChat" /\ result[p] = Val(TRUE)) =>
      /\ ChatItems(table, op[p].chatId) = {}
      /\ MessageItems(table, op[p].chatId) = {}
      /\ MessagesForChat(table, op[p].chatId, op[p].userId) = <<>>
      /\ ChatForUser(table, op[p].chatId, op[p].userId) = Null

\* C5 witness: deleteChat has returned true after deleting two messages
\* (get, query, two message deletes, chat delete).
C5_Witness ==
  \E p \in Procs :
    /\ Done(p) /\ op[p].name = "deleteChat" /\ result[p] = Val(TRUE)
    /\ calls[p] = 5

\* the chatIds that createChat returned for userId u and deleteChat did not remove since
LiveChatsOf(u) == { c[1] : c \in { x \in live : x[2] = u } }

\* C6: after any sequence of completed operations, getAllChatsForUser(u)
\* returns exactly the chats created by createChat with userId u and not
\* deleted since, each once, and no chat of another user; in every state (so
\* after every touch and rename) the chat items of the table are those chats.
C6_ListingExact ==
  /\ { <<i.chatId, i.userId>> : i \in { x \in table : InGsi1(x) } } = live
  /\ Cardinality({ x \in table : IsChat(x) }) = Cardinality(live)
  /\ \A p \in Procs :
       (Done(p) /\ op[p].name = "getAllChatsForUser" /\ op[p].userId # "") =>
         /\ result[p].kind = "value"
         /\ LET chats == result[p].value
            IN /\ { chats[k].chatId : k \in 1..Len(chats) } = LiveChatsOf(op[p].userId)
               /\ Len(chats) = Cardinality(LiveChatsOf(op[p].userId))
               /\ \A k \in 1..Len(chats) :
                    chats[k] \in table /\ chats[k].userId = op[p].userId

\* C6 witness: getAllChatsForUser has returned one chat while the table also
\* holds a chat of another user, after a chat had been deleted or renamed.
C6_Witness ==
  \E p \in Procs :
    /\ Done(p) /\ op[p].name = "getAllChatsForUser" /\ op[p].userId # ""
    /\ result[p].kind = "value" /\ Len(result[p].value) = 1
    /\ \E i \in table : IsChat(i) /\ i.userId # op[p].userId
    /\ MessageItems(table, result[p].value[1].chatId) # {}

\* message a comes before message b: earlier createdAt, or equal createdAt and
\* smaller messageId
MessageBefore(a, b) ==
  \/ a.createdAt < b.createdAt
  \/ a.createdAt = b.createdAt /\ a.messageId < b.messageId

\* C7: in sort-key order of a chat's partition the METADATA item comes before
\* every message and messages are ordered by createdAt, then messageId; for a
\* chat owned by the caller getMessagesForChat returns every stored message of
\* that chatId, each once, in that order, and nothing else.
C7_PartitionOrder ==
  /\ \A c \in ChatIds :
       LET q == QueryPartition(table, c)
       IN \A j, k \in 1..Len(q) :
            j < k => /\ IsMessage(q[k])
                     /\ IsMessage(q[j]) => MessageBefore(q[j], q[k])
  /\ \A p \in Procs :
       ( /\ Done(p) /\ op[p].name = "getMessagesForChat"
         /\ OwnedBy(table, op[p].chatId, op[p].userId) ) =>
         /\ result[p].kind = "value"
         /\ LET v == result[p].value
            IN /\ { v[k] : k \in 1..Len(v) } = MessageItems(table, op[p].chatId)
               /\ Len(v) = Cardinality(MessageItems(table, op[p].chatId))
               /\ \A j, k \in 1..Len(v) : j < k => MessageBefore(v[j], v[k])

\* C7 witness: getMessagesForChat has returned two messages of which the
\* earlier one has the larger messageId.
C7_Witness ==
  \E p \in Procs :
    /\ Done(p) /\ op[p].name = "getMessagesForChat" /\ result[p].kind = "value"
    /\ Len(result[p].value) = 2
    /\ result[p].value[1].messageId > result[p].value[2].messageId
    /\ ChatItems(table, op[p].chatId) # {}

\* a name of 1 to 100 characters
ValidLength(name) == Len(name) >= 1 /\ Len(name) <= MaxNameLen

\* C8: for a chat owned by the caller and a valid name X, updateChatName
\* returns a chat, and a following getChatForUser yields that chat, with name X
\* and every attribute other than name and updatedAt as before the call; no
\* other chat and no message changes.
C8_RenameRoundTrip ==
  [][\A p \in Procs :
       ( /\ Moves(p) /\ InProgress(p) /\ op[p].name = "updateChatName"
         /\ OwnedBy(table, op[p].chatId, op[p].userId)
         /\ ValidLength(op[p].chatName) )
       => LET old == CHOOSE i \in ChatItems(table, op[p].chatId) : TRUE
          IN /\ pc[p] = "updateChatName_getChat" =>
                  pc'[p] = "updateChatName_patch" /\ table' = table
             /\ pc[p] = "updateChatName_patch" =>
                  /\ pc'[p] = "done" /\ result'[p].kind = "value"
                  /\ LET new == result'[p].value
                     IN /\ new.name = op[p].chatName
                        /\ DOMAIN new = DOMAIN old
                        /\ \A a \in DOMAIN old \ {"name", "updatedAt"} : new[a] = old[a]
                        /\ ChatForUser(table', op[p].chatId, op[p].userId) = new
                        /\ table' \ {new} = table \ {old}]_vars

\* C8 witness: updateChatName has returned the chat under its new name of 100
\* characters, after the clock advanced past the chat's creation.
C8_Witness ==
  \E p \in Procs :
    /\ Done(p) /\ op[p].name = "updateChatName" /\ result[p].kind = "value"
    /\ result[p].value.name = Rep(MaxNameLen)
    /\ result[p].value.createdAt < now
    /\ Cardinality({ i \in table : IsChat(i) }) = 2

\* C9: for a non-empty userId and a valid name, createChat stores and returns
\* a chat whose chatId is that of no chat in the table and of no chat created
\* earlier, whose userId and name are the arguments and whose createdAt equals
\* its updatedAt; no existing item changes.
C9_CreateChatFresh ==
  [][\A p \in Procs :
       ( /\ Moves(p) /\ pc[p] = "createChat_create"
         /\ ValidLength(op[p].chatName) )
       => /\ pc'[p] = "done" /\ result'[p].kind = "value"
          /\ LET chat == result'[p].value
             IN /\ ChatItems(table, chat.chatId) = {}
                /\ chat.chatId \notin usedIds.chat
                /\ chat.userId = op[p].userId
                /\ chat.name = op[p].chatName
                /\ chat.createdAt = chat.updatedAt
                /\ table' = table \cup {chat}
                /\ chat \notin table]_vars

\* The part of C9 that does not speak of the timestamps' equality, with
\* createdAt <= updatedAt in its place.
CreateChatFreshUpToClock ==
  [][\A p \in Procs :
       ( /\ Moves(p) /\ pc[p] = "createChat_create"
         /\ ValidLength(op[p].chatName) )
       => /\ pc'[p] = "done" /\ result'[p].kind = "value"
          /\ LET chat == result'[p].value
             IN /\ ChatItems(table, chat.chatId) = {}
                /\ chat.chatId \notin usedIds.chat
                /\ chat.userId = op[p].userId
                /\ chat.name = op[p].chatName
                /\ chat.createdAt <= chat.updatedAt
                /\ table' = table \cup {chat}
                /\ chat \notin table]_vars

\* C10: createChat and updateChatName with a name of length 0 or above 100
\* write nothing and return nothing, and fail with a validation error where
\* the name is checked; names of length 1 and 100 are accepted; so every chat
\* item in the table has a name of 1 to 100 characters.
C10_NameConstraint ==
  /\ [](\A i \in table : (IsChat(i) /\ "name" \in DOMAIN i) => ValidLength(i.name))
  /\ [][\A p \in Procs :
          ( /\ Moves(p) /\ InProgress(p)
            /\ op[p].name \in {"createChat", "updateChatName"} )
          => IF ValidLength(op[p].chatName)
             THEN pc[p] \in {"createChat_create", "updateChatName_patch"} =>
                    /\ pc'[p] = "done" /\ result'[p].kind = "value"
                    /\ result'[p].value.name = op[p].chatName
                    /\ result'[p].value \in table'
             ELSE /\ table' = table
                  /\ result'[p].kind # "value"
                  /\ pc[p] \in {"createChat_create", "updateChatName_patch"} =>
                       /\ pc'[p] = "done"
                       /\ result'[p] = Err("Validation")
                       /\ calls'[p] = calls[p]]_vars

\* C10 witness: updateChatName with a name of 101 characters has failed with a
\* validation error on a table that holds a chat whose name has 100 characters.
C10_Witness ==
  \E p \in Procs :
    /\ Done(p) /\ op[p].name = "updateChatName" /\ Len(op[p].chatName) = MaxNameLen + 1
    /\ result[p] = Err("Validation")
    /\ \E i \in ChatItems(table, op[p].chatId) : Len(i.name) = MaxNameLen

\* C11: the updatedAt of a chat item never decreases from one state to the
\* next while the chat exists, and the step that completes a successful
\* createMessage leaves the parent chat in the table with an updatedAt greater
\* than or equal to the one it had before.
C11_UpdatedAtMonotone ==
  [][/\ \A i \in table : \A j \in table' :
          ( /\ IsChat(i) /\ IsChat(j) /\ i.chatId = j.chatId
            /\ "updatedAt" \in DOMAIN i )
          => "updatedAt" \in DOMAIN j /\ j.updatedAt >= i.updatedAt
     /\ \A p \in Procs :
          ( /\ Moves(p) /\ pc[p] = "createMessage_touch"
            /\ ChatItems(table, op[p].chatId) # {} )
          => /\ pc'[p] = "done" /\ result'[p].kind = "value"
             /\ ChatItems(table', op[p].chatId) # {}
             /\ \A i \in ChatItems(table, op[p].chatId) :
                  \A j \in ChatItems(table', op[p].chatId) :
                    j.updatedAt >= i.updatedAt]_vars

\* C11 witness: createMessage has returned its message on a chat whose
\* updatedAt was read later than its createdAt.
C11_Witness ==
  \E p \in Procs :
    /\ Done(p) /\ op[p].name = "createMessage" /\ result[p].kind = "value"
    /\ \E i \in ChatItems(table, op[p].chatId) : i.createdAt < i.updatedAt

\* the items a targeted message mutation on chatId must leave alone, apart
\* from the addressed message: every message and every item of another chat
Bystanders(tbl, chatId) == { i \in tbl : IsMessage(i) \/ i.chatId # chatId }

\* the stored message of chatId with that messageId
Addressed(tbl, chatId, messageId) ==
  CHOOSE m \in MessageItems(tbl, chatId) : m.messageId = messageId

\* C12: the write of a successful updateMessage replaces the message of that
\* messageId by one with the new content, the reasoningContent supplied (the
\* stored one when none is supplied) and the same chatId, messageId, userId,
\* role and createdAt, and the operation returns it; the write of a successful
\* deleteMessage removes exactly that message and the operation returns true.
\* No step of either operation changes another message or an item of another
\* chat.
C12_TargetedMessageMutation ==
  [][\A p \in Procs :
       ( /\ Moves(p) /\ InProgress(p)
         /\ op[p].name \in {"updateMessage", "deleteMessage"} )
       => /\ pc[p] \notin {"updateMessage_patch", "deleteMessage_delete"} =>
               Bystanders(table', op[p].chatId) = Bystanders(table, op[p].chatId)
          /\ pc[p] = "updateMessage_patch" =>
               LET old == Addressed(table, op[p].chatId, op[p].messageId)
                   new == Addressed(table', op[p].chatId, op[p].messageId)
               IN /\ old \in table
                  /\ pc'[p] = "updateMessage_touch"
                  /\ table' = (table \ {old}) \cup {new}
                  /\ DOMAIN new = DOMAIN old
                  /\ \A a \in DOMAIN old \ {"content", "reasoningContent", "updatedAt"} :
                       new[a] = old[a]
                  /\ new.content = op[p].content
                  /\ new.reasoningContent =
                       IF op[p].reasoningContent # Undefined
                       THEN op[p].reasoningContent ELSE old.reasoningContent
          /\ pc[p] = "updateMessage_touch" =>
               /\ pc'[p] = "done"
               /\ result'[p] = Val(Addressed(table', op[p].chatId, op[p].messageId))
          /\ pc[p] = "deleteMessage_delete" =>
               LET old == Addressed(table, op[p].chatId, op[p].messageId)
               IN /\ old \in table
                  /\ pc'[p] = "deleteMessage_touch"
                  /\ table' = table \ {old}
          /\ pc[p] = "deleteMessage_touch" =>
               pc'[p] = "done" /\ result'[p] = Val(TRUE)]_vars

\* C12 witness: updateMessage without a reasoningContent has returned the
\* message with its new content and the reasoningContent it had, while the chat
\* holds a second message.
C12_Witness ==
  \E p \in Procs :
    /\ Done(p) /\ op[p].name = "updateMessage" /\ result[p].kind = "value"
    /\ op[p].reasoningContent = Undefined
    /\ result[p].value.content = op[p].content
    /\ result[p].value.reasoningContent = "r1"
    /\ result[p].value \in table
    /\ Cardinality(MessageItems(table, op[p].chatId)) = 2

\* the labels of the writes that address the chat item after its creation:
\* the three parent touches and the rename
ChatWriteLabels ==
  {"createMessage_touch", "updateMessage_touch", "deleteMessage_touch",
   "updateChatName_patch"}

\* C13: every successful createMessage, updateMessage, deleteMessage and
\* updateChatName on a chat leaves the chat item with updatedAt equal to the
\* time of that write, and getAllChatsForUser returns the chats in ascending
\* order of updatedAt.
C13_RecencyIndexCurrent ==
  /\ [](\A p \in Procs :
          ( /\ Done(p) /\ op[p].name = "getAllChatsForUser"
            /\ result[p].kind = "value" )
          => \A j, k \in 1..Len(result[p].value) :
               j < k => result[p].value[j].updatedAt <= result[p].value[k].updatedAt)
  /\ [][\A p \in Procs :
          ( /\ Moves(p) /\ pc[p] \in ChatWriteLabels
            /\ pc'[p] = "done" /\ result'[p].kind = "value" )
          => /\ ChatItems(table', op[p].chatId) # {}
             /\ \A i \in ChatItems(table', op[p].chatId) : i.updatedAt = now]_vars

\* messages of chatId are stored while no chat item of chatId is
Orphaned(tbl, chatId) ==
  MessageItems(tbl, chatId) # {} /\ ChatItems(tbl, chatId) = {}

\* process p stopped in the middle of deleteChat's cascade: after the
\* ownership check and the query, before the call that returns true
CrashedInCascade(p) ==
  pc[p] = "crashed" /\ op[p].name = "deleteChat" /\ calls[p] >= 2

\* C14 as claimed: a crash in the middle of deleteChat's cascade can leave the
\* chat item deleted while messages of the chat remain.  The cascade only
\* deletes, so if any of its crash points leaves such a state, the crash point
\* before its last call does: there, of a chat that held messages, one item is
\* left, and the claim says it is a message without its chat.
C14_CrashLeavesOrphans ==
  \A p \in Procs :
    ( /\ CrashedInCascade(p) /\ calls[p] >= 3
      /\ Len(QueryPartition(table, op[p].chatId)) = 1 )
    => Orphaned(table, op[p].chatId)

\* C14 amended: a crash in the middle of deleteChat's cascade leaves no
\* orphaned message: the chat item is deleted by the last call, so the crash
\* leaves the chat item, owned as before, with the messages not yet deleted.
C14_CrashKeepsChat ==
  \A p \in Procs :
    CrashedInCascade(p) =>
      /\ ~Orphaned(table, op[p].chatId)
      /\ OwnedBy(table, op[p].chatId, op[p].userId)
      /\ MessageItems(table, op[p].chatId) =
           { local[p].messages[k] : k \in 1..Len(local[p].messages) }

\* C14 witness: the process stopped in deleteChat after it deleted the first
\* of the chat's two messages.
C14_Witness ==
  \E p \in Procs :
    /\ CrashedInCascade(p) /\ calls[p] = 3
    /\ Cardinality(MessageItems(table, op[p].chatId)) = 1
    /\ ChatItems(table, op[p].chatId) # {}

\* the attributes that identify an item: its kind and chatId, for a message
\* also createdAt and messageId
Identity(i) ==
  IF IsChat(i) THEN <<"chat", i.chatId>>
  ELSE <<"chatmessage", i.chatId, i.createdAt, i.messageId>>

\* C15: the key mapping is collision-free.  In the table: two items have the
\* same key only if they have the same kind and identifying attributes, and
\* then they are one item, so there is at most one METADATA item per chatId.
\* createChat stores its chat under a key that no other chatId and no message
\* maps to.  createMessage, also on a chat that holds a message with the same
\* createdAt, stores its message under a key that no chat and no other
\* (chatId, createdAt, messageId) maps to, and leaves every stored item as it
\* was.
C15_KeysCollisionFree ==
  /\ [](\A i, j \in table :
          /\ KeyOf(i) = KeyOf(j) <=> Identity(i) = Identity(j)
          /\ KeyOf(i) = KeyOf(j) => i = j)
  /\ [][\A p \in Procs :
          /\ ( /\ Moves(p) /\ pc[p] = "createChat_create"
               /\ result'[p].kind = "value" )
             => LET new == result'[p].value
                IN /\ table' = table \cup {new}
                   /\ \A c \in ChatIds :
                        /\ ChatKey(c) = KeyOf(new) => c = new.chatId
                        /\ \A t \in 0..MaxClock, m \in MsgIds :
                             MessageKey(c, t, m) # KeyOf(new)
          /\ (Moves(p) /\ pc[p] = "createMessage_create")
             => /\ pc'[p] = "createMessage_touch"
                /\ LET new == local'[p].message
                   IN /\ new \notin table
                      /\ table' = table \cup {new}
                      /\ \A i \in table : KeyOf(i) # KeyOf(new)
                      /\ \A c \in ChatIds :
                           /\ ChatKey(c) # KeyOf(new)
                           /\ \A t \in 0..MaxClock, m \in MsgIds :
                                MessageKey(c, t, m) = KeyOf(new)
                                  => <<"chatmessage", c, t, m>> = Identity(new)]_vars

\* C15 witness: a chat holds two messages with the same createdAt and
\* different messageIds, next to its METADATA item.
C15_Witness ==
  \E i, j \in table :
    /\ IsMessage(i) /\ IsMessage(j) /\ i.chatId = j.chatId
    /\ i.createdAt = j.createdAt /\ i.messageId # j.messageId
    /\ ChatItems(table, i.chatId) # {}

C17_NoOrphanAfterOverlap ==
  \A p, q \in Procs :
    ( /\ Done(p) /\ op[p].name = "createMessage" /\ result[p].kind = "value"
      /\ Done(q) /\ op[q].name = "deleteChat" /\ result[q] = Val(TRUE)
      /\ op[p].chatId = op[q].chatId /\ op[p].userId = op[q].userId )
    => ~Orphaned(table, op[p].chatId)

\* the attributes createChat writes
ChatAttributes == {"entity", "chatId", "userId", "name", "createdAt", "updatedAt"}

\* C18: also when operations overlap, every chat item in the table was
\* written by createChat: it carries userId, name and createdAt, and its
\* chatId is that of a chat that createChat returned and no deleteChat has
\* removed since; so no touch creates or re-creates a chat item.
C18_TouchNeverCreatesChat ==
  \A i \in table :
    IsChat(i) =>
      /\ DOMAIN i = ChatAttributes
      /\ \E c \in live : c[1] = i.chatId /\ c[2] = i.userId

\* the labels an operation reaches only after a write of its own
AfterWriteLabels ==
  {"createMessage_touch", "updateMessage_touch", "deleteMessage_touch"}

\* C19: also when operations overlap, an operation that ends by raising an
\* error has written nothing: the step that raises leaves the table as it is
\* and the operation has issued no write before it.
C19_FailureAtomicity ==
  [][\A p \in Procs :
       (Moves(p) /\ pc'[p] = "done" /\ result'[p].kind = "error")
       => /\ table' = table
          /\ pc[p] \notin AfterWriteLabels]_vars

====
